---- MODULE Spec2Model ----
(***************************************************************************)
(* The three delivery adapters of                                          *)
(* packages/astro/src/runtime/server/render/astro/render.ts:               *)
(* renderToString, renderToReadableStream and renderToAsyncIterable, with  *)
(* the entry dispatcher (callComponentAsTemplateResultOrResponse) and the  *)
(* head-propagation pass (bufferHeadContent).                              *)
(*                                                                         *)
(* One behaviour is one call of one adapter.  The component tree is the    *)
(* environment: it writes chunks to the destination and then completes or  *)
(* fails.  Text is a sequence of one-character strings, bytes are a        *)
(* sequence of integers.                                                   *)
(*                                                                         *)
(* A step is what runs between two suspension points of the event loop:    *)
(* the continuation of an await, a call of destination.write, a handler of *)
(* a promise, a timer callback.  A throw inside destination.write fails    *)
(* the render operation that called it.  The consumer of the iterator      *)
(* awaits each next() before it calls the next one.                        *)
(***************************************************************************)
EXTENDS Integers, Sequences, FiniteSets, TLC

\* ------------------------------------------------------------------ bounds

\* The most chunks the tree writes in one render.
MaxWrites == 2
\* The most next() calls the consumer of the iterator makes.
MaxPulls == 3
\* The size of the pool of propagators (component instances with head content).
MaxPropagators == 2

\* ------------------------------------------------------------------- text

RECURSIVE Flatten(_)
\* The concatenation of a sequence of sequences.
Flatten(ss) == IF ss = <<>> THEN <<>> ELSE Head(ss) \o Flatten(Tail(ss))

\* The letters the /i flag of DOCTYPE_EXP folds: the upper-case letters that occur
\* in the texts of the model.
Lower(c) ==
  CASE c = "D" -> "d" [] c = "O" -> "o" [] c = "C" -> "c" [] c = "T" -> "t"
    [] c = "Y" -> "y" [] c = "P" -> "p" [] c = "E" -> "e" [] c = "H" -> "h"
    [] c = "M" -> "m" [] c = "L" -> "l" [] c = "R" -> "r"
    [] OTHER -> c

\* The pattern of DOCTYPE_EXP, /<!doctype html/i, as the characters it matches.
DoctypePattern == <<"<", "!", "d", "o", "c", "t", "y", "p", "e", " ", "h", "t", "m", "l">>

\* The comparison of the pattern without the flag i.
MatchExact(a, b) == a = b
\* The comparison of the pattern with the flag i.
MatchIgnoreCase(a, b) == Lower(a) = Lower(b)

\* One character of the subject against one character of the pattern (flag i).
MatchChar(a, b) == MatchIgnoreCase(a, b)

\* DOCTYPE_EXP.test(s): the pattern occurs somewhere in s.
DOCTYPE_EXP_test(s) ==
  \E i \in 1..(Len(s) - Len(DoctypePattern) + 1) :
    \A j \in 1..Len(DoctypePattern) : MatchChar(s[i + j - 1], DoctypePattern[j])

\* The code unit of an ASCII character of the model.
Code(c) ==
  CASE c = "\n" -> 10 [] c = " " -> 32 [] c = "!" -> 33 [] c = "<" -> 60 [] c = ">" -> 62
    [] c = "C" -> 67 [] c = "D" -> 68 [] c = "E" -> 69 [] c = "O" -> 79 [] c = "P" -> 80
    [] c = "T" -> 84 [] c = "Y" -> 89
    [] c = "c" -> 99 [] c = "d" -> 100 [] c = "e" -> 101 [] c = "h" -> 104
    [] c = "l" -> 108 [] c = "m" -> 109 [] c = "o" -> 111 [] c = "p" -> 112
    [] c = "t" -> 116 [] c = "y" -> 121

AsciiChars == {"\n", " ", "!", "<", ">", "C", "D", "E", "O", "P", "T", "Y",
               "c", "d", "e", "h", "l", "m", "o", "p", "t", "y"}

\* UTF-8 of one character: one byte for ASCII, two for U+00E9.
EncodeChar(c) == IF c = "U+00E9" THEN <<195, 169>> ELSE <<Code(c)>>

RECURSIVE Encode(_)
\* encoder.encode(s): the UTF-8 bytes of a text.
Encode(s) == IF s = <<>> THEN <<>> ELSE EncodeChar(Head(s)) \o Encode(Tail(s))

RECURSIVE Decode(_)
\* decoder.decode(bytes): the text of UTF-8 bytes.
Decode(bs) ==
  IF bs = <<>> THEN <<>>
  ELSE IF Len(bs) >= 2 /\ bs[1] = 195 /\ bs[2] = 169
       THEN <<"U+00E9">> \o Decode(SubSeq(bs, 3, Len(bs)))
       ELSE <<CHOOSE c \in AsciiChars : Code(c) = bs[1]>> \o Decode(Tail(bs))

Digits == <<"0", "1", "2", "3", "4", "5", "6", "7", "8", "9">>

RECURSIVE Decimal(_)
\* String(n) of a byte value.
Decimal(n) == IF n < 10 THEN <<Digits[n + 1]>>
              ELSE Decimal(n \div 10) \o <<Digits[(n % 10) + 1]>>

RECURSIVE JoinComma(_)
\* String(uint8array): the elements in decimal, joined by commas.
JoinComma(bs) ==
  IF bs = <<>> THEN <<>>
  ELSE IF Len(bs) = 1 THEN Decimal(bs[1])
  ELSE Decimal(bs[1]) \o <<",">> \o JoinComma(Tail(bs))

\* ----------------------------------------------------------------- chunks

StringChunk(t) == [kind |-> "string", text |-> t]
BytesChunk(b) == [kind |-> "bytes", bytes |-> b]
ResponseChunk == [kind |-> "response"]

LowerDoctypeText == <<"<", "!", "d", "o", "c", "t", "y", "p", "e", " ", "h", "t", "m", "l", ">">>
MixedDoctypeText == <<"\n", "<", "!", "D", "o", "c", "T", "y", "p", "e", " ", "h", "t", "m", "l", ">">>

\* The chunks the tree may write: an empty text, a text with a two-byte character,
\* a text with the doctype in mixed case after a newline, the bytes of a doctype,
\* and a Response.
ChunkValues ==
  { StringChunk(<<>>),
    StringChunk(<<"U+00E9">>),
    StringChunk(MixedDoctypeText),
    BytesChunk(Encode(LowerDoctypeText)),
    ResponseChunk }

\* String(chunk), the subject of the doctype test.
StringOf(chunk) ==
  CASE chunk.kind = "string" -> chunk.text
    [] chunk.kind = "bytes" -> JoinComma(chunk.bytes)
    [] chunk.kind = "response" ->
         <<"[", "o", "b", "j", "e", "c", "t", " ", "R", "e", "s", "p", "o", "n", "s", "e", "]">>

\* chunkToString(result, chunk) of ../common.js.
chunkToString(chunk) ==
  IF chunk.kind = "bytes" THEN Decode(chunk.bytes) ELSE chunk.text

\* chunkToByteArray(result, chunk) of ../common.js.
chunkToByteArray(chunk) ==
  IF chunk.kind = "bytes" THEN chunk.bytes ELSE Encode(chunk.text)

\* const doctype = result.compressHTML ? '<!DOCTYPE html>' : '<!DOCTYPE html>\n'
DoctypeText(compress) ==
  LET d == <<"<", "!", "D", "O", "C", "T", "Y", "P", "E", " ", "h", "t", "m", "l", ">">>
  IN IF compress THEN d ELSE d \o <<"\n">>

\* ------------------------------------------------------------------ state

VARIABLES
  adapter,          \* "string", "stream" or "iterable": the adapter called
  isPage,           \* the isPage argument
  partial,          \* result.partial
  compressHTML,     \* result.compressHTML
  factoryResult,    \* what componentFactory(result, props, children) resolves to
  pc,               \* where the adapter's async function is
  returned,         \* what the adapter has returned, "none" before
  thrown,           \* the error the adapter has rejected with, NoError before
  propagators,      \* result._metadata.propagators, in insertion order
  initReturns,      \* what the init of each propagator resolves to, or "throws"
  initAdds,         \* the propagator the init of each propagator adds to the set
  headIdx,          \* how many entries the iterator of bufferHeadContent has passed
  inits,            \* how many times each propagator's init was invoked
  extraHead,        \* result._metadata.extraHead
  initLog,          \* what the awaited inits returned, in order: the propagator, and
                    \* whether isHeadAndContent(returnValue)
  renderState,      \* templateResult.render(destination): its promise
  renderError,      \* the value the render operation rejected with
  written,          \* the chunks passed to destination.write, in order
  renderedFirstPageChunk,
  docInserts,       \* how many times a destination emitted the doctype
  str,              \* renderToString: the accumulator
  enqueued,         \* renderToReadableStream: the byte arrays passed to controller.enqueue
  streamState,      \* "none", "readable", "closed" or "errored"
  streamError,      \* the value passed to controller.error
  taskState,        \* the detached task / the then-catch handlers
  timerPending,     \* the setTimeout(..., 0) callback is queued
  buffer,           \* renderToAsyncIterable: the buffer of byte arrays
  error,            \* renderToAsyncIterable: the saved error
  nextId,           \* the identity of the promiseWithResolvers in `next`
  nextResolved,     \* whether next.resolve() was called on it
  awaiting,         \* the promise a pending next() call awaits, 0 when none is pending
  results           \* what the next() calls have settled with, in order

ctx == <<adapter, isPage, partial, compressHTML, factoryResult>>
ctl == <<pc, returned, thrown>>
head == <<propagators, initReturns, initAdds, headIdx, inits, extraHead, initLog>>
rend == <<renderState, renderError, written, renderedFirstPageChunk, docInserts>>
strv == <<str>>
strm == <<enqueued, streamState, streamError, timerPending>>
iter == <<buffer, error, nextId, nextResolved>>
cons == <<awaiting, results>>

vars == <<ctx, ctl, head, rend, strv, strm, taskState, iter, cons>>

\* ----------------------------------------------------------------- errors

NoLoc == "none"
\* route?.component
RouteComponent == "route.component"
NoError == [type |-> "none", name |-> "none", loc |-> NoLoc]

\* new AstroError(AstroErrorData.ResponseSentError): no location is given.
ResponseSentError == [type |-> "AstroError", name |-> "ResponseSentError", loc |-> NoLoc]

\* new AstroError({...OnlyResponseCanBeReturned, location: {file: route?.component}})
OnlyResponseCanBeReturned ==
  [type |-> "AstroError", name |-> "OnlyResponseCanBeReturned", loc |-> RouteComponent]

\* What the tree's render operation or an initializer may reject with: an AstroError
\* without or with a location, another Error, and a falsy value (throw undefined).
RejectionValues ==
  { [type |-> "AstroError", name |-> "RenderError", loc |-> NoLoc],
    [type |-> "AstroError", name |-> "RenderError", loc |-> "component.astro"],
    [type |-> "Error", name |-> "RenderError", loc |-> NoLoc],
    [type |-> "undefined", name |-> "undefined", loc |-> NoLoc] }

\* The truthiness of a rejection value, as `if (error)` tests it.
Truthy(e) == e.type \notin {"none", "undefined"}

\* ------------------------------------------------------------------- init

FactoryResults == {"Response", "RenderTemplateResult", "HeadAndContent", "other"}
Adapters == {"string", "stream", "iterable"}
PropagatorIds == 1..MaxPropagators

\* extraHead holds one fragment (0) before the adapter is called.
InitialExtraHead == <<0>>

\* The contexts of a render.  compressHTML is read only where a doctype is
\* inserted (isPage and not partial), so it is varied only there.
Contexts ==
  {c \in [isPage : BOOLEAN, partial : BOOLEAN, compressHTML : BOOLEAN] :
     c.compressHTML => (c.isPage /\ ~c.partial)}

\* The inits of the propagators: every second one resolves to a head+content
\* pair, or every one rejects; each adds its successor to the set, the last one
\* itself again.
HeadAndOther == [p \in PropagatorIds |-> IF p % 2 = 1 THEN "HeadAndContent" ELSE "other"]
AllThrow == [p \in PropagatorIds |-> "throws"]
AddsSuccessor == [p \in PropagatorIds |-> IF p + 1 \in PropagatorIds THEN p + 1 ELSE p]

\* The state at the call of an adapter.  The set of propagators and their inits
\* are read by bufferHeadContent alone, which only a page render of the stream
\* and iterable adapters runs: they are varied there, and elsewhere one
\* propagator is registered.
Init ==
  /\ adapter \in Adapters
  /\ \E c \in Contexts :
       /\ isPage = c.isPage
       /\ partial = c.partial
       /\ compressHTML = c.compressHTML
  /\ factoryResult \in FactoryResults
  /\ pc = "factory"
  /\ returned = "none"
  /\ thrown = NoError
  /\ propagators \in (IF isPage /\ adapter # "string" THEN {<<>>, <<1>>} ELSE {<<1>>})
  /\ initReturns \in (IF isPage /\ adapter # "string" /\ propagators # <<>>
                      THEN {HeadAndOther, AllThrow} ELSE {HeadAndOther})
  /\ initAdds = AddsSuccessor
  /\ headIdx = 0
  /\ inits = [p \in PropagatorIds |-> 0]
  /\ extraHead = InitialExtraHead
  /\ initLog = <<>>
  /\ renderState = "notInvoked"
  /\ renderError = NoError
  /\ written = <<>>
  /\ renderedFirstPageChunk = FALSE
  /\ docInserts = 0
  /\ str = <<>>
  /\ enqueued = <<>>
  /\ streamState = "none"
  /\ streamError = NoError
  /\ taskState = "none"
  /\ timerPending = FALSE
  /\ buffer = <<>>
  /\ error = NoError
  /\ nextId = 0
  /\ nextResolved = FALSE
  /\ awaiting = 0
  /\ results = <<>>

\* ------------------------------------------------------- entry dispatcher

\* callComponentAsTemplateResultOrResponse: a Response is returned as it is, a
\* result that is no render template is refused, a head+content pair is unwrapped.
\* The dispatcher without `if (factoryResult instanceof Response)`.
callComponentWithoutResponseCheck(fr) ==
  IF fr \notin {"Response", "RenderTemplateResult", "HeadAndContent"}
  THEN [kind |-> "throw", value |-> "none", error |-> OnlyResponseCanBeReturned]
  ELSE [kind |-> "return", value |-> "RenderTemplateResult", error |-> NoError]

\* The dispatcher without `else if (!isRenderTemplateResult(factoryResult))`: any
\* result that is no Response is taken for a render template.
callComponentWithoutTemplateCheck(fr) ==
  IF fr = "Response" THEN [kind |-> "return", value |-> "Response", error |-> NoError]
  ELSE [kind |-> "return", value |-> "RenderTemplateResult", error |-> NoError]

callComponentAsTemplateResultOrResponse(fr) ==
  IF fr = "Response" THEN [kind |-> "return", value |-> "Response", error |-> NoError]
  ELSE IF fr \notin {"RenderTemplateResult", "HeadAndContent"}
       THEN [kind |-> "throw", value |-> "none", error |-> OnlyResponseCanBeReturned]
       ELSE [kind |-> "return", value |-> "RenderTemplateResult", error |-> NoError]

\* `if (templateResult instanceof Response) return templateResult;`, and the
\* rejection of the adapter when the dispatcher throws.
ReturnsEarly(d) ==
  /\ d.value # "RenderTemplateResult"
  /\ pc' = IF d.kind = "throw" THEN "rejected" ELSE "returned"
  /\ returned' = d.value
  /\ thrown' = d.error

\* ------------------------------------------------------------ destination

\* InsertsDoctype without the flag: every write is taken for the first.
InsertsDoctypeEveryWrite(chunk) ==
  /\ isPage
  /\ ~partial /\ ~DOCTYPE_EXP_test(StringOf(chunk))

\* InsertsDoctype without the test of the chunk.
InsertsDoctypeUntested(chunk) ==
  /\ isPage /\ ~renderedFirstPageChunk
  /\ ~partial

\* InsertsDoctype without `!result.partial`.
InsertsDoctypeIgnoresPartial(chunk) ==
  /\ isPage /\ ~renderedFirstPageChunk
  /\ ~DOCTYPE_EXP_test(StringOf(chunk))

\* The doctype test of destination.write, the same in the three adapters:
\* isPage && !renderedFirstPageChunk, then !result.partial && !DOCTYPE_EXP.test(String(chunk)).
InsertsDoctype(chunk) ==
  /\ isPage /\ ~renderedFirstPageChunk
  /\ ~partial /\ ~DOCTYPE_EXP_test(StringOf(chunk))

\* What one call of write does to the flag and to the log of the writes.
NoteWrite(chunk) ==
  /\ written' = Append(written, chunk)
  /\ renderedFirstPageChunk' = (renderedFirstPageChunk \/ isPage)
  /\ docInserts' = docInserts + (IF InsertsDoctype(chunk) THEN 1 ELSE 0)

\* ---------------------------------------------------------- renderToString

\* renderToString after `await callComponentAsTemplateResultOrResponse(...)`, up to
\* `await templateResult.render(destination)`.
StringStart ==
  /\ adapter = "string" /\ pc = "factory"
  /\ LET d == callComponentAsTemplateResultOrResponse(factoryResult)
     IN \/ ReturnsEarly(d) /\ UNCHANGED renderState
        \/ /\ d.value = "RenderTemplateResult"
           /\ renderState' = "running"
           /\ pc' = "awaitRender"
           /\ UNCHANGED <<returned, thrown>>
  /\ UNCHANGED <<ctx, head, renderError, written, renderedFirstPageChunk, docInserts,
                 strv, strm, taskState, iter, cons>>

\* StringWrite without `if (chunk instanceof Response) return;`.
StringWriteAppendsResponse(chunk) ==
  /\ adapter = "string" /\ renderState = "running"
  /\ Len(written) < MaxWrites
  /\ NoteWrite(chunk)
  /\ str' = str \o (IF InsertsDoctype(chunk) THEN DoctypeText(compressHTML) ELSE <<>>)
                \o (IF chunk.kind = "response" THEN StringOf(chunk) ELSE chunkToString(chunk))
  /\ UNCHANGED <<ctx, ctl, head, renderState, renderError, strm, taskState, iter, cons>>

\* destination.write of renderToString.
StringWrite(chunk) ==
  /\ adapter = "string" /\ renderState = "running"
  /\ Len(written) < MaxWrites
  /\ NoteWrite(chunk)
  /\ str' = str \o (IF InsertsDoctype(chunk) THEN DoctypeText(compressHTML) ELSE <<>>)
                \o (IF chunk.kind = "response" THEN <<>> ELSE chunkToString(chunk))
  /\ UNCHANGED <<ctx, ctl, head, renderState, renderError, strm, taskState, iter, cons>>

\* `await templateResult.render(destination); return str;`
StringReturn ==
  /\ adapter = "string" /\ pc = "awaitRender"
  /\ \/ /\ renderState = "fulfilled"
        /\ pc' = "returned"
        /\ returned' = "string"
        /\ UNCHANGED thrown
     \/ /\ renderState = "rejected"
        /\ pc' = "rejected"
        /\ thrown' = renderError
        /\ UNCHANGED returned
  /\ UNCHANGED <<ctx, head, rend, strv, strm, taskState, iter, cons>>

\* ------------------------------------------------------- bufferHeadContent

\* SetAdd on a list instead of a Set: the value is added again.
SetAddAgain(set, add) == Append(set, add)

\* Set.prototype.add: a value already in the set is not added again.
SetAdd(set, add) ==
  IF \E i \in 1..Len(set) : set[i] = add THEN set ELSE Append(set, add)

\* bufferHeadContent, a turn of the loop that finds an entry, up to the await:
\* iterator.next() passes the entry and its init is invoked, which may add a
\* propagator to the set.
HeadCall ==
  /\ pc = "head" /\ headIdx < Len(propagators)
  /\ LET p == propagators[headIdx + 1]
     IN /\ inits' = [inits EXCEPT ![p] = @ + 1]
        /\ propagators' = SetAdd(propagators, initAdds[p])
  /\ headIdx' = headIdx + 1
  /\ pc' = "awaitInit"
  /\ UNCHANGED <<ctx, returned, thrown, initReturns, initAdds, extraHead, initLog, rend,
                 strv, strm, taskState, iter, cons>>

\* bufferHeadContent after `await value.init(result)`: the head of a head+content
\* pair is pushed to extraHead; a rejection of init rejects the adapter.
HeadResume ==
  /\ pc = "awaitInit"
  /\ LET p == propagators[headIdx]
         isHeadAndContent == initReturns[p] = "HeadAndContent"
     IN \/ /\ initReturns[p] # "throws"
           /\ extraHead' = IF isHeadAndContent THEN Append(extraHead, p) ELSE extraHead
           /\ initLog' = Append(initLog, [p |-> p, head |-> isHeadAndContent])
           /\ pc' = "head"
           /\ UNCHANGED <<returned, thrown>>
        \/ /\ initReturns[p] = "throws"
           /\ \E e \in RejectionValues :
                /\ pc' = "rejected"
                /\ thrown' = e
           /\ UNCHANGED <<returned, extraHead, initLog>>
  /\ UNCHANGED <<ctx, propagators, initReturns, initAdds, headIdx, inits, rend, strv, strm,
                 taskState, iter, cons>>

\* ------------------------------------------------- renderToReadableStream

\* `return new ReadableStream({start(controller) {...}})`: start runs in the
\* constructor and invokes the render operation in a detached task.
CreateStream ==
  /\ streamState' = "readable"
  /\ renderState' = "running"
  /\ taskState' = "awaitRender"
  /\ pc' = "returned"
  /\ returned' = "ReadableStream"
  /\ UNCHANGED thrown

\* StreamStart without `if (isPage) await bufferHeadContent(result)`.
StreamStartSkipsHead ==
  /\ adapter = "stream" /\ pc = "factory"
  /\ LET d == callComponentAsTemplateResultOrResponse(factoryResult)
     IN \/ ReturnsEarly(d) /\ UNCHANGED <<renderState, streamState, taskState>>
        \/ /\ d.value = "RenderTemplateResult"
           /\ CreateStream
  /\ UNCHANGED <<ctx, head, renderError, written, renderedFirstPageChunk, docInserts,
                 strv, enqueued, streamError, timerPending, iter, cons>>

\* renderToReadableStream after `await callComponentAsTemplateResultOrResponse(...)`,
\* up to `await bufferHeadContent(result)` or to its return.
StreamStart ==
  /\ adapter = "stream" /\ pc = "factory"
  /\ LET d == callComponentAsTemplateResultOrResponse(factoryResult)
     IN \/ ReturnsEarly(d) /\ UNCHANGED <<renderState, streamState, taskState>>
        \/ /\ d.value = "RenderTemplateResult"
           /\ IF isPage
              THEN /\ pc' = "head"
                   /\ UNCHANGED <<returned, thrown, renderState, streamState, taskState>>
              ELSE CreateStream
  /\ UNCHANGED <<ctx, head, renderError, written, renderedFirstPageChunk, docInserts,
                 strv, enqueued, streamError, timerPending, iter, cons>>

\* bufferHeadContent finds its iterator done and returns; the stream is created.
StreamHeadDone ==
  /\ adapter = "stream" /\ pc = "head" /\ headIdx = Len(propagators)
  /\ CreateStream
  /\ UNCHANGED <<ctx, head, renderError, written, renderedFirstPageChunk, docInserts,
                 strv, enqueued, streamError, timerPending, iter, cons>>

\* StreamWrite with the doctype of an uncompressed page whatever compressHTML is.
StreamWriteIgnoresCompressHTML(chunk) ==
  /\ adapter = "stream" /\ renderState = "running"
  /\ Len(written) < MaxWrites
  /\ NoteWrite(chunk)
  /\ enqueued' = enqueued
       \o (IF InsertsDoctype(chunk) THEN <<Encode(DoctypeText(FALSE))>> ELSE <<>>)
       \o (IF chunk.kind = "response" THEN <<>> ELSE <<chunkToByteArray(chunk)>>)
  /\ IF chunk.kind = "response"
     THEN renderState' = "rejected" /\ renderError' = ResponseSentError
     ELSE UNCHANGED <<renderState, renderError>>
  /\ UNCHANGED <<ctx, ctl, head, strv, streamState, streamError, timerPending,
                 taskState, iter, cons>>

\* destination.write of renderToReadableStream: a Response throws a
\* ResponseSentError, which ends the render operation that called write.
StreamWrite(chunk) ==
  /\ adapter = "stream" /\ renderState = "running"
  /\ Len(written) < MaxWrites
  /\ NoteWrite(chunk)
  /\ enqueued' = enqueued
       \o (IF InsertsDoctype(chunk) THEN <<Encode(DoctypeText(compressHTML))>> ELSE <<>>)
       \o (IF chunk.kind = "response" THEN <<>> ELSE <<chunkToByteArray(chunk)>>)
  /\ IF chunk.kind = "response"
     THEN renderState' = "rejected" /\ renderError' = ResponseSentError
     ELSE UNCHANGED <<renderState, renderError>>
  /\ UNCHANGED <<ctx, ctl, head, strv, streamState, streamError, timerPending,
                 taskState, iter, cons>>

\* e.setLocation({file: route?.component}) under `AstroError.is(e) && !e.loc`.
SetLocationIfMissing(e) ==
  IF e.type = "AstroError" /\ e.loc = NoLoc THEN [e EXCEPT !.loc = RouteComponent] ELSE e

\* StreamSettle with controller.error(e) called in the catch block itself.
StreamSettleErrorsAtOnce ==
  /\ adapter = "stream" /\ taskState = "awaitRender"
  /\ \/ /\ renderState = "fulfilled"
        /\ streamState' = "closed"
        /\ taskState' = "closed"
        /\ UNCHANGED <<renderError, streamError>>
     \/ /\ renderState = "rejected"
        /\ renderError' = SetLocationIfMissing(renderError)
        /\ streamState' = "errored"
        /\ streamError' = renderError'
        /\ taskState' = "caught"
  /\ UNCHANGED <<ctx, ctl, head, renderState, written, renderedFirstPageChunk, docInserts,
                 strv, enqueued, timerPending, iter, cons>>

\* The detached task after `await templateResult.render(destination)`: close, or
\* the catch block, which queues controller.error on a timer.
StreamSettle ==
  /\ adapter = "stream" /\ taskState = "awaitRender"
  /\ \/ /\ renderState = "fulfilled"
        /\ streamState' = "closed"
        /\ taskState' = "closed"
        /\ UNCHANGED <<renderError, timerPending>>
     \/ /\ renderState = "rejected"
        /\ renderError' = SetLocationIfMissing(renderError)
        /\ timerPending' = TRUE
        /\ taskState' = "caught"
        /\ UNCHANGED streamState
  /\ UNCHANGED <<ctx, ctl, head, renderState, written, renderedFirstPageChunk, docInserts,
                 strv, enqueued, streamError, iter, cons>>

\* The callback of setTimeout(() => controller.error(e), 0).
StreamTimer ==
  /\ adapter = "stream" /\ timerPending
  /\ timerPending' = FALSE
  /\ streamState' = "errored"
  /\ streamError' = renderError
  /\ UNCHANGED <<ctx, ctl, head, rend, strv, enqueued, taskState, iter, cons>>

\* -------------------------------------------------- renderToAsyncIterable

\* `let next = promiseWithResolvers()`, the render operation invoked with the
\* then and catch handlers attached, and the iterable returned.
CreateIterable ==
  /\ nextId' = 1
  /\ nextResolved' = FALSE
  /\ renderState' = "running"
  /\ taskState' = "pending"
  /\ pc' = "returned"
  /\ returned' = "AsyncIterable"
  /\ UNCHANGED thrown

\* renderToAsyncIterable after `await callComponentAsTemplateResultOrResponse(...)`,
\* up to `await bufferHeadContent(result)` or to its return.
IterableStart ==
  /\ adapter = "iterable" /\ pc = "factory"
  /\ LET d == callComponentAsTemplateResultOrResponse(factoryResult)
     IN \/ ReturnsEarly(d) /\ UNCHANGED <<renderState, taskState, nextId, nextResolved>>
        \/ /\ d.value = "RenderTemplateResult"
           /\ IF isPage
              THEN /\ pc' = "head"
                   /\ UNCHANGED <<returned, thrown, renderState, taskState, nextId, nextResolved>>
              ELSE CreateIterable
  /\ UNCHANGED <<ctx, head, renderError, written, renderedFirstPageChunk, docInserts,
                 strv, strm, buffer, error, cons>>

\* bufferHeadContent finds its iterator done and returns; the iterable is created.
IterableHeadDone ==
  /\ adapter = "iterable" /\ pc = "head" /\ headIdx = Len(propagators)
  /\ CreateIterable
  /\ UNCHANGED <<ctx, head, renderError, written, renderedFirstPageChunk, docInserts,
                 strv, strm, buffer, error, cons>>

\* IterableWrite with a Response ignored, as renderToString ignores it.
IterableWriteDropsResponse(chunk) ==
  /\ adapter = "iterable" /\ renderState = "running"
  /\ Len(written) < MaxWrites
  /\ NoteWrite(chunk)
  /\ LET withDoctype == buffer \o (IF InsertsDoctype(chunk)
                                   THEN <<Encode(DoctypeText(compressHTML))>> ELSE <<>>)
         bytes == IF chunk.kind = "response" THEN <<>> ELSE chunkToByteArray(chunk)
     IN IF Len(bytes) > 0
        THEN /\ buffer' = Append(withDoctype, bytes)
             /\ nextId' = nextId + 1
             /\ nextResolved' = FALSE
        ELSE /\ buffer' = withDoctype
             /\ UNCHANGED <<nextId, nextResolved>>
  /\ UNCHANGED <<ctx, ctl, head, renderState, renderError, strv, strm, taskState, error, cons>>

\* IterableWrite with backpressure: a write waits until the consumer has drained
\* the buffer.
IterableWriteWaitsForPull(chunk) ==
  /\ adapter = "iterable" /\ renderState = "running"
  /\ buffer = <<>>
  /\ Len(written) < MaxWrites
  /\ NoteWrite(chunk)
  /\ LET withDoctype == buffer \o (IF InsertsDoctype(chunk)
                                   THEN <<Encode(DoctypeText(compressHTML))>> ELSE <<>>)
     IN IF chunk.kind = "response"
        THEN /\ buffer' = withDoctype
             /\ renderState' = "rejected"
             /\ renderError' = ResponseSentError
             /\ UNCHANGED <<nextId, nextResolved>>
        ELSE LET bytes == chunkToByteArray(chunk)
             IN /\ UNCHANGED <<renderState, renderError>>
                /\ IF Len(bytes) > 0
                   THEN /\ buffer' = Append(withDoctype, bytes)
                        /\ nextId' = nextId + 1
                        /\ nextResolved' = FALSE
                   ELSE /\ buffer' = withDoctype
                        /\ UNCHANGED <<nextId, nextResolved>>
  /\ UNCHANGED <<ctx, ctl, head, strv, strm, taskState, error, cons>>

\* IterableWrite without `if (bytes.length > 0)`: empty bytes are pushed too, and
\* the promise is resolved and replaced.
IterableWriteResolvesEmpty(chunk) ==
  /\ adapter = "iterable" /\ renderState = "running"
  /\ Len(written) < MaxWrites
  /\ NoteWrite(chunk)
  /\ LET withDoctype == buffer \o (IF InsertsDoctype(chunk)
                                   THEN <<Encode(DoctypeText(compressHTML))>> ELSE <<>>)
     IN IF chunk.kind = "response"
        THEN /\ buffer' = withDoctype
             /\ renderState' = "rejected"
             /\ renderError' = ResponseSentError
             /\ UNCHANGED <<nextId, nextResolved>>
        ELSE /\ UNCHANGED <<renderState, renderError>>
             /\ buffer' = Append(withDoctype, chunkToByteArray(chunk))
             /\ nextId' = nextId + 1
             /\ nextResolved' = FALSE
  /\ UNCHANGED <<ctx, ctl, head, strv, strm, taskState, error, cons>>

\* destination.write of renderToAsyncIterable: the doctype is pushed without a
\* resolve; non-empty bytes are pushed, the promise is resolved and replaced.
IterableWrite(chunk) ==
  /\ adapter = "iterable" /\ renderState = "running"
  /\ Len(written) < MaxWrites
  /\ NoteWrite(chunk)
  /\ LET withDoctype == buffer \o (IF InsertsDoctype(chunk)
                                   THEN <<Encode(DoctypeText(compressHTML))>> ELSE <<>>)
     IN IF chunk.kind = "response"
        THEN /\ buffer' = withDoctype
             /\ renderState' = "rejected"
             /\ renderError' = ResponseSentError
             /\ UNCHANGED <<nextId, nextResolved>>
        ELSE LET bytes == chunkToByteArray(chunk)
             IN /\ UNCHANGED <<renderState, renderError>>
                /\ IF Len(bytes) > 0
                   THEN /\ buffer' = Append(withDoctype, bytes)
                        /\ nextId' = nextId + 1
                        /\ nextResolved' = FALSE
                   ELSE /\ buffer' = withDoctype
                        /\ UNCHANGED <<nextId, nextResolved>>
  /\ UNCHANGED <<ctx, ctl, head, strv, strm, taskState, error, cons>>

\* The promise `id` is resolved: it is an earlier one, replaced by a write that
\* resolved it, or the current one after next.resolve().
IsResolved(id) == id < nextId \/ (id = nextId /\ nextResolved)

\* IterableSettle with a catch handler that stores the error and does not call
\* next.resolve().
IterableSettleKeepsSilent ==
  /\ adapter = "iterable" /\ taskState = "pending"
  /\ ~(awaiting # 0 /\ IsResolved(awaiting))
  /\ \/ /\ renderState = "fulfilled"
        /\ taskState' = "resolved"
        /\ nextResolved' = TRUE
        /\ UNCHANGED error
     \/ /\ renderState = "rejected"
        /\ error' = renderError
        /\ taskState' = "caught"
        /\ UNCHANGED nextResolved
  /\ UNCHANGED <<ctx, ctl, head, rend, strv, strm, buffer, nextId, cons>>

\* The handlers of renderPromise.then(...).catch(...).  Jobs run in the order they
\* were queued: the continuation of a next() call whose promise a write has
\* resolved was queued before the render operation settled, and runs first.
IterableSettle ==
  /\ adapter = "iterable" /\ taskState = "pending"
  /\ ~(awaiting # 0 /\ IsResolved(awaiting))
  /\ \/ /\ renderState = "fulfilled"
        /\ taskState' = "resolved"
        /\ UNCHANGED error
     \/ /\ renderState = "rejected"
        /\ error' = renderError
        /\ taskState' = "caught"
  /\ nextResolved' = TRUE
  /\ UNCHANGED <<ctx, ctl, head, rend, strv, strm, buffer, nextId, cons>>

\* iterator.next() is called: it runs to `await next.promise`, the promise that
\* `next` holds at the call.  The consumer awaits each call before the next one.
NextCall ==
  /\ adapter = "iterable" /\ returned = "AsyncIterable"
  /\ awaiting = 0
  /\ Len(results) < MaxPulls
  /\ awaiting' = nextId
  /\ UNCHANGED <<ctx, ctl, head, rend, strv, strm, taskState, iter, results>>

\* NextResume without `buffer.length = 0`.
NextResumeKeepsBuffer ==
  /\ adapter = "iterable" /\ awaiting # 0
  /\ IsResolved(awaiting)
  /\ awaiting' = 0
  /\ IF Truthy(error)
     THEN results' = Append(results, [kind |-> "throw", error |-> error])
     ELSE LET mergedArray == Flatten(buffer)
          IN results' = Append(results, [kind |-> "value",
                                         done |-> (Len(mergedArray) = 0),
                                         value |-> mergedArray])
  /\ UNCHANGED <<ctx, ctl, head, rend, strv, strm, taskState, iter>>

\* iterator.next() after `await next.promise`: the saved error is thrown, or the
\* buffer is merged and emptied and the result is done when nothing was merged.
NextResume ==
  /\ adapter = "iterable" /\ awaiting # 0
  /\ IsResolved(awaiting)
  /\ awaiting' = 0
  /\ IF Truthy(error)
     THEN /\ results' = Append(results, [kind |-> "throw", error |-> error])
          /\ UNCHANGED buffer
     ELSE LET mergedArray == Flatten(buffer)
          IN /\ results' = Append(results, [kind |-> "value",
                                            done |-> (Len(mergedArray) = 0),
                                            value |-> mergedArray])
             /\ buffer' = <<>>
  /\ UNCHANGED <<ctx, ctl, head, rend, strv, strm, taskState, error, nextId, nextResolved>>

\* ------------------------------------------------------ the component tree

\* The tree calls destination.write(chunk).
Write ==
  \E chunk \in ChunkValues :
    \/ StringWrite(chunk)
    \/ StreamWrite(chunk)
    \/ IterableWrite(chunk)

\* templateResult.render(destination) fulfils.
RenderComplete ==
  /\ renderState = "running"
  /\ renderState' = "fulfilled"
  /\ UNCHANGED <<ctx, ctl, head, renderError, written, renderedFirstPageChunk, docInserts,
                 strv, strm, taskState, iter, cons>>

\* templateResult.render(destination) rejects with a value of its own.
RenderFail ==
  /\ renderState = "running"
  /\ \E e \in RejectionValues :
       /\ renderState' = "rejected"
       /\ renderError' = e
  /\ UNCHANGED <<ctx, ctl, head, written, renderedFirstPageChunk, docInserts,
                 strv, strm, taskState, iter, cons>>

\* ---------------------------------------------------------- specification

Next ==
  \/ StringStart
  \/ StringReturn
  \/ StreamStart
  \/ StreamHeadDone
  \/ StreamSettle
  \/ StreamTimer
  \/ IterableStart
  \/ IterableHeadDone
  \/ IterableSettle
  \/ NextCall
  \/ NextResume
  \/ HeadCall
  \/ HeadResume
  \/ Write
  \/ RenderComplete
  \/ RenderFail

Spec == Init /\ [][Next]_vars

\* ------------------------------ the Async-Iterable Adapter under fairness

\* A call of renderToAsyncIterable for a component (isPage false) whose factory
\* gives a render template.
IterInit ==
  /\ Init
  /\ adapter = "iterable"
  /\ ~isPage /\ ~partial
  /\ factoryResult = "RenderTemplateResult"

\* The tree calls destination.write(chunk) of renderToAsyncIterable.
IterableTreeWrite == \E chunk \in ChunkValues : IterableWrite(chunk)

IterNext ==
  \/ IterableStart
  \/ IterableTreeWrite
  \/ RenderComplete
  \/ RenderFail
  \/ IterableSettle
  \/ NextCall
  \/ NextResume

\* The event loop runs every job that is queued: the continuation of the adapter
\* after its first await, the then and catch handlers of the render promise, and
\* the continuation of a next() call whose promise is resolved.  The consumer
\* keeps calling next(), and the render operation completes or fails at last.
IterableFairSpec ==
  /\ IterInit /\ [][IterNext]_vars
  /\ WF_vars(IterableStart)
  /\ WF_vars(IterableSettle)
  /\ WF_vars(NextResume)
  /\ WF_vars(NextCall)
  /\ WF_vars(RenderComplete \/ RenderFail)

\* ------------------------------------- the head-propagation pass by itself

\* The contents of result._metadata.propagators at the call: the propagators of
\* the pool in any insertion order, none twice.
PropagatorSets ==
  {s \in UNION {[1..n -> PropagatorIds] : n \in 0..MaxPropagators} :
     \A i, j \in DOMAIN s : i # j => s[i] # s[j]}

\* What `await value.init(result)` may give: a head+content pair, another value,
\* or a rejection.
InitOutcomes == {"HeadAndContent", "other", "throws"}

\* A page render of the Stream or the Async-Iterable Adapter, with any set of
\* propagators, any outcome of each init, and any propagator added by each init.
HeadInit ==
  /\ adapter \in {"stream", "iterable"}
  /\ isPage = TRUE
  /\ partial = FALSE
  /\ compressHTML = FALSE
  /\ factoryResult = "RenderTemplateResult"
  /\ pc = "factory"
  /\ returned = "none"
  /\ thrown = NoError
  /\ propagators \in PropagatorSets
  /\ initReturns \in [PropagatorIds -> InitOutcomes]
  /\ initAdds \in [PropagatorIds -> PropagatorIds]
  /\ headIdx = 0
  /\ inits = [p \in PropagatorIds |-> 0]
  /\ extraHead = InitialExtraHead
  /\ initLog = <<>>
  /\ renderState = "notInvoked"
  /\ renderError = NoError
  /\ written = <<>>
  /\ renderedFirstPageChunk = FALSE
  /\ docInserts = 0
  /\ str = <<>>
  /\ enqueued = <<>>
  /\ streamState = "none"
  /\ streamError = NoError
  /\ taskState = "none"
  /\ timerPending = FALSE
  /\ buffer = <<>>
  /\ error = NoError
  /\ nextId = 0
  /\ nextResolved = FALSE
  /\ awaiting = 0
  /\ results = <<>>

\* The adapter up to the return of bufferHeadContent and the creation of the
\* stream or iterator.
HeadNext ==
  \/ StreamStart
  \/ IterableStart
  \/ HeadCall
  \/ HeadResume
  \/ StreamHeadDone
  \/ IterableHeadDone

HeadSpec == HeadInit /\ [][HeadNext]_vars

\* ------------------------------------------------- what the claims speak of

\* The pattern occurs in the text t at position i, letters compared without case.
MarkerAt(t, i) ==
  /\ i + Len(DoctypePattern) - 1 <= Len(t)
  /\ \A j \in 1..Len(DoctypePattern) : Lower(t[i + j - 1]) = DoctypePattern[j]

\* The number of doctype markers in a text.
MarkerCount(t) == Cardinality({i \in 1..Len(t) : MarkerAt(t, i)})

\* The chunk's content holds a doctype marker (a Response has no content).
ChunkHasMarker(chunk) ==
  chunk.kind # "response" /\ MarkerCount(chunkToString(chunk)) > 0

\* The chunk as the regular expression sees it holds a doctype marker.
StringFormHasMarker(chunk) == MarkerCount(StringOf(chunk)) > 0

RECURSIVE TextOfAll(_)
\* The text of the chunks of a write log that are no Response, in write order.
TextOfAll(w) ==
  IF w = <<>> THEN <<>>
  ELSE (IF Head(w).kind = "response" THEN <<>> ELSE chunkToString(Head(w)))
       \o TextOfAll(Tail(w))

RECURSIVE BytesOfAll(_)
\* The bytes of the chunks of a write log that are no Response, in write order.
BytesOfAll(w) ==
  IF w = <<>> THEN <<>>
  ELSE (IF Head(w).kind = "response" THEN <<>> ELSE chunkToByteArray(Head(w)))
       \o BytesOfAll(Tail(w))

IsPrefix(a, b) == Len(a) <= Len(b) /\ SubSeq(b, 1, Len(a)) = a

\* The doctype unit of this render, as text and as bytes.
DoctypeUnit == IF compressHTML
               THEN <<"<", "!", "D", "O", "C", "T", "Y", "P", "E", " ", "h", "t", "m", "l", ">">>
               ELSE <<"<", "!", "D", "O", "C", "T", "Y", "P", "E", " ", "h", "t", "m", "l", ">", "\n">>
DoctypeBytes == IF compressHTML
                THEN <<60, 33, 68, 79, 67, 84, 89, 80, 69, 32, 104, 116, 109, 108, 62>>
                ELSE <<60, 33, 68, 79, 67, 84, 89, 80, 69, 32, 104, 116, 109, 108, 62, 10>>

\* The values the next() calls have returned, in order, and their concatenation.
ReturnedValues == [i \in 1..Len(results) |->
                     IF results[i].kind = "value" THEN results[i].value ELSE <<>>]
Delivered == Flatten(ReturnedValues)

\* Everything the destination has emitted so far: the text of the String Adapter,
\* the enqueued bytes of the Stream Adapter, and for the Async-Iterable Adapter the
\* bytes delivered followed by the bytes still buffered.
Emitted ==
  CASE adapter = "string" -> str
    [] adapter = "stream" -> Flatten(enqueued)
    [] adapter = "iterable" -> Delivered \o Flatten(buffer)

\* What the consumer of the adapter has received so far.
Output ==
  CASE adapter = "string" -> str
    [] adapter = "stream" -> Flatten(enqueued)
    [] adapter = "iterable" -> Delivered

\* The written chunks as the adapter's unit of output: text or bytes.
ConvertedAll(w) == IF adapter = "string" THEN TextOfAll(w) ELSE BytesOfAll(w)
Converted(chunk) == ConvertedAll(<<chunk>>)
DoctypeOut == IF adapter = "string" THEN DoctypeUnit ELSE DoctypeBytes

\* ------------------------------------------------------------------ claims

\* C1: in a page render (isPage) that is not partial, whose first written chunk
\* holds no doctype marker, each adapter emits the doctype unit of the context
\* (with a newline unless compressHTML) first, immediately before the first chunk,
\* and exactly once however many chunks follow; so whatever has been delivered
\* starts with the doctype.
C1_DoctypeFirstAndOnce ==
  (isPage /\ ~partial /\ written # <<>> /\ ~ChunkHasMarker(written[1]))
  => /\ docInserts = 1
     /\ Emitted = DoctypeOut \o ConvertedAll(written)
     /\ IsPrefix(DoctypeOut \o Converted(written[1]), Emitted)
     /\ Output # <<>> => IsPrefix(DoctypeOut, Output)
     /\ adapter = "stream" => enqueued[1] = DoctypeBytes
     /\ MarkerAt(IF adapter = "string" THEN Output ELSE Decode(Emitted), 1)

\* C1 witness: a page render has written two chunks, the first without a marker,
\* and the consumer of the iterator has received the doctype.
C1_Witness ==
  /\ adapter = "iterable" /\ isPage /\ ~partial /\ ~compressHTML
  /\ Len(written) = 2
  /\ written[1] = StringChunk(<<"U+00E9">>)
  /\ written[2] = StringChunk(<<"U+00E9">>)
  /\ docInserts = 1
  /\ Delivered = DoctypeBytes \o <<195, 169, 195, 169>>

\* The text of what the consumer has received.
OutputText == IF adapter = "string" THEN Output ELSE Decode(Output)

\* C2 as stated: the output never holds both an inserted doctype and a doctype
\* marker written by the tree, in whichever chunk the tree wrote it (here: in a
\* string-like chunk, where the regular expression would find it).
C2_NeverDuplicatesAnyChunk ==
  ~ /\ docInserts > 0
    /\ \E i \in 1..Len(written) :
         written[i].kind = "string" /\ StringFormHasMarker(written[i])
    /\ MarkerCount(OutputText) > 1

\* C2 as amended: the doctype is inserted at most once, and never when the string
\* form of the first written chunk (String(chunk), which the regular expression
\* tests) holds a doctype marker in any letter case: then the output is the
\* converted chunks alone.  A marker in a later chunk, or in the bytes of a
\* byte-like first chunk, is not looked at.
C2_NeverDuplicatesFirstChunk ==
  /\ docInserts <= 1
  /\ (written # <<>> /\ StringFormHasMarker(written[1]))
       => /\ docInserts = 0
          /\ Emitted = ConvertedAll(written)

\* C2 witness: a page render whose first chunk holds the marker in mixed case has
\* written a second chunk and closed its stream with no doctype inserted.
C2_Witness ==
  /\ adapter = "stream" /\ isPage /\ ~partial
  /\ Len(written) = 2
  /\ written[1] = StringChunk(MixedDoctypeText)
  /\ streamState = "closed"
  /\ docInserts = 0
  /\ MarkerCount(OutputText) = 1

\* C3: when the factory's top-level result is a Response, each adapter returns
\* that Response and does nothing else: no init is invoked, extraHead is as it
\* was, the render operation is not invoked, nothing is written, and neither a
\* stream nor an iterator exists.
C3_ShortCircuitResponse ==
  (factoryResult = "Response")
  => /\ pc \in {"factory", "returned"}
     /\ pc = "returned" => returned = "Response"
     /\ pc = "factory" => returned = "none"
     /\ thrown = NoError
     /\ \A p \in PropagatorIds : inits[p] = 0
     /\ headIdx = 0 /\ initLog = <<>>
     /\ extraHead = InitialExtraHead
     /\ renderState = "notInvoked"
     /\ written = <<>> /\ docInserts = 0 /\ ~renderedFirstPageChunk
     /\ str = <<>> /\ enqueued = <<>> /\ buffer = <<>>
     /\ streamState = "none" /\ taskState = "none" /\ ~timerPending
     /\ nextId = 0 /\ awaiting = 0 /\ results = <<>>

\* C3 witness: the Async-Iterable Adapter of a page with a propagator has returned
\* the Response of the factory.
C3_Witness ==
  /\ adapter = "iterable" /\ isPage /\ propagators = <<1>>
  /\ factoryResult = "Response"
  /\ pc = "returned" /\ returned = "Response"

\* The bytes due for the writes so far: the doctype when the first chunk asked for
\* it, then the bytes of every chunk in write order.
DoctypeDue == isPage /\ ~partial /\ written # <<>> /\ ~StringFormHasMarker(written[1])
BytesDue == (IF DoctypeDue THEN DoctypeBytes ELSE <<>>) \o BytesOfAll(written)

\* The last next() call returned done = true.
ConsumerDone ==
  /\ results # <<>>
  /\ results[Len(results)].kind = "value"
  /\ results[Len(results)].done

\* C4: when the render operation completes, the concatenation of all enqueues of
\* the Stream Adapter, and of all next() values of the Async-Iterable Adapter once
\* the consumer has pulled to done, is the doctype bytes (if inserted) followed by
\* the bytes of every written chunk in write order; on the way, what has been
\* delivered and what is buffered are together exactly the bytes written so far.
C4_NoByteLostOrReordered ==
  /\ (adapter = "stream" /\ renderState \in {"running", "fulfilled"})
       => Flatten(enqueued) = BytesDue
  /\ (adapter = "iterable" /\ renderState \in {"running", "fulfilled"})
       => /\ Delivered \o Flatten(buffer) = BytesDue
          /\ ConsumerDone => Delivered = BytesDue

\* C4 witness: the consumer of the iterator received two written chunks in two
\* pulls, after the doctype, and then done.
C4_Witness ==
  /\ adapter = "iterable" /\ renderState = "fulfilled"
  /\ isPage /\ ~partial /\ compressHTML
  /\ written = <<StringChunk(<<"U+00E9">>), BytesChunk(Encode(LowerDoctypeText))>>
  /\ Len(results) = 3
  /\ results[1] = [kind |-> "value", done |-> FALSE, value |-> DoctypeBytes \o <<195, 169>>]
  /\ results[2].kind = "value" /\ ~results[2].done
  /\ ConsumerDone
  /\ Delivered = BytesDue

\* The values the next() calls before the i-th have returned, concatenated.
DeliveredBefore(i) == Flatten(SubSeq(ReturnedValues, 1, i - 1))

\* C5: in the Async-Iterable Adapter with a consumer that awaits each next(), a
\* result that is not done carries a non-empty value, and a result that is done
\* (with an empty value) comes only after the render operation has completed and
\* every written byte has been delivered.
C5_DoneOnlyAfterCompletion ==
  adapter = "iterable" =>
    \A i \in 1..Len(results) :
      results[i].kind = "value" =>
        /\ ~results[i].done => Len(results[i].value) > 0
        /\ results[i].done => /\ results[i].value = <<>>
                              /\ renderState = "fulfilled"
                              /\ DeliveredBefore(i) = BytesDue

\* The stream's part of C6 in one state: a closed stream belongs to a completed
\* render and an errored one to a failed render whose catch block has run, the two
\* exclude each other, and all that was written has been enqueued.
C6_State ==
  /\ streamState = "closed" => renderState = "fulfilled" /\ taskState = "closed" /\ ~timerPending
  /\ streamState = "errored" => renderState = "rejected" /\ taskState = "caught" /\ ~timerPending
  /\ timerPending => renderState = "rejected" /\ taskState = "caught" /\ streamState = "readable"
  /\ renderState = "fulfilled" => streamState \in {"readable", "closed"}
  /\ renderState = "rejected" => streamState \in {"readable", "errored"}
  /\ renderState # "notInvoked" => Flatten(enqueued) = BytesDue

\* The stream's part of C6 in one step: nothing follows a terminal event, the step
\* in which the render operation fails and the step of the catch block leave the
\* stream readable, and the stream is errored only by the timer that the catch
\* block queued in an earlier step.
C6_Step ==
  /\ streamState \in {"closed", "errored"} => UNCHANGED <<streamState, enqueued, streamError>>
  /\ (renderState # "rejected" /\ renderState' = "rejected") => streamState' = "readable"
  /\ (taskState # "caught" /\ taskState' = "caught") => streamState' = "readable" /\ timerPending'
  /\ (streamState # "errored" /\ streamState' = "errored")
       => timerPending /\ taskState = "caught" /\ enqueued' = enqueued
  /\ (streamState # "closed" /\ streamState' = "closed") => enqueued' = enqueued

\* C6: the stream of the Stream Adapter gets one terminal event, after every
\* enqueue: closed and never errored when the render operation completes; when it
\* fails, the chunks written before are enqueued, the error is reported by a later
\* step than the failure and its catch block, and the stream is never closed.
C6_OneTerminalEvent ==
  /\ [](adapter = "stream" => C6_State)
  /\ [][adapter = "stream" => C6_Step]_vars

\* C6 witness: the stream is errored after a render operation that wrote a chunk
\* and then rejected.
C6_Witness ==
  /\ adapter = "stream" /\ streamState = "errored"
  /\ Len(enqueued) >= 1 /\ Len(written) >= 1
  /\ renderError.name = "RenderError"

\* The heads of the inits that resolved to a head+content pair, in visit order.
RECURSIVE HeadsOf(_)
HeadsOf(log) ==
  IF log = <<>> THEN <<>>
  ELSE (IF Head(log).head THEN <<Head(log).p>> ELSE <<>>) \o HeadsOf(Tail(log))

\* C7: in the Stream and Async-Iterable Adapters of a page, when the render
\* operation is invoked the head-propagation pass is over: the init of every
\* propagator of the set was invoked and awaited and every head it returned is in
\* extraHead; nothing is enqueued or buffered before.  When isPage is false the
\* pass never runs and extraHead stays as it was.
C7_HeadBeforeRender ==
  adapter \in {"stream", "iterable"} =>
    /\ (isPage /\ renderState # "notInvoked") =>
         /\ pc = "returned"
         /\ headIdx = Len(propagators)
         /\ \A i \in 1..Len(propagators) : inits[propagators[i]] = 1
         /\ Len(initLog) = Len(propagators)
         /\ \A i \in 1..Len(initLog) : initLog[i].p = propagators[i]
         /\ extraHead = InitialExtraHead \o HeadsOf(initLog)
    /\ renderState = "notInvoked" => written = <<>> /\ enqueued = <<>> /\ buffer = <<>>
    /\ ~isPage =>
         /\ \A p \in PropagatorIds : inits[p] = 0
         /\ headIdx = 0 /\ initLog = <<>>
         /\ extraHead = InitialExtraHead

\* C7 witness: the stream of a page has enqueued a chunk after a pass over two
\* propagators, the second added by the init of the first, that pushed one head.
C7_Witness ==
  /\ adapter = "stream" /\ isPage
  /\ propagators = <<1, 2>>
  /\ inits[1] = 1 /\ inits[2] = 1
  /\ extraHead = <<0, 1>>
  /\ enqueued # <<>>

\* A Response was written to the destination.
ResponseWritten == \E i \in 1..Len(written) : written[i].kind = "response"

\* C8 in one state, after a Response was written to the destination of the Stream
\* or Async-Iterable Adapter.
C8_State ==
  /\ written[Len(written)].kind = "response"
  /\ renderState = "rejected"
  /\ renderError.type = "AstroError" /\ renderError.name = "ResponseSentError"
  /\ Emitted = BytesDue
  /\ adapter = "stream" =>
       /\ streamState # "closed"
       /\ taskState = "caught" => (timerPending \/ streamState = "errored")
       /\ streamState = "errored" => streamError.name = "ResponseSentError"
  /\ adapter = "iterable" =>
       /\ \A i \in 1..Len(results) : results[i].kind = "value" => ~results[i].done
       /\ taskState = "caught" => error = ResponseSentError

\* C8 in one step: once the catch handler has run, a next() call that settles
\* throws the ResponseSentError.
C8_Step ==
  (adapter = "iterable" /\ taskState = "caught" /\ results' # results)
    => results'[Len(results')] = [kind |-> "throw", error |-> ResponseSentError]

\* C8: a Response written after rendering began is fatal in the Stream and the
\* Async-Iterable Adapter: the write raises a ResponseSentError that fails the
\* render operation, the Response is neither enqueued nor buffered, the stream is
\* errored and never closed, and next() throws and never returns done = true.
C8_ResponseChunkIsFatal ==
  /\ []((adapter \in {"stream", "iterable"} /\ ResponseWritten) => C8_State)
  /\ [][ResponseWritten => C8_Step]_vars

\* C8 witness: a next() call has thrown the ResponseSentError of a Response written
\* as the second chunk, after the first chunk was delivered.
C8_Witness ==
  /\ adapter = "iterable"
  /\ Len(written) = 2 /\ written[2] = ResponseChunk
  /\ Len(results) = 2
  /\ results[1].kind = "value" /\ results[1].value = <<195, 169>>
  /\ results[2] = [kind |-> "throw", error |-> ResponseSentError]

\* The text due for the writes so far.
TextDue == (IF DoctypeDue THEN DoctypeUnit ELSE <<>>) \o TextOfAll(written)

\* C9: the String Adapter returns the doctype (if inserted) followed by the text
\* of every chunk that is no Response, in write order; a Response written during
\* the render adds nothing, raises no error and does not stop later chunks.
C9_StringResult ==
  adapter = "string" =>
    /\ str = TextDue
    /\ returned = "string" => renderState = "fulfilled"
    /\ renderError # ResponseSentError /\ thrown # ResponseSentError
    /\ (renderState = "running" /\ ResponseWritten /\ Len(written) < MaxWrites)
         => ENABLED StringWrite(StringChunk(<<"U+00E9">>))

\* C9 witness: the String Adapter has returned the text of a page whose first
\* chunk was a Response and whose second chunk was text.
C9_Witness ==
  /\ adapter = "string" /\ isPage /\ ~partial /\ ~compressHTML
  /\ written = <<ResponseChunk, StringChunk(<<"U+00E9">>)>>
  /\ returned = "string"
  /\ str = DoctypeUnit \o <<"U+00E9">>

\* C10: in the Async-Iterable Adapter a failure of the render operation is never
\* lost, whatever the value it rejects with: once the catch handler has run, every
\* next() call that settles throws that value, and none returns a result.
C10_FailureNeverLost ==
  [][(adapter = "iterable" /\ taskState = "caught" /\ results' # results)
       => results'[Len(results')] = [kind |-> "throw", error |-> renderError]]_vars

\* The failures of the render operation that the adapter has surfaced: the
\* rejection of renderToString, the error of the stream, the values thrown by
\* next().
SurfacedFailures ==
  CASE adapter = "string" ->
         IF pc = "rejected" /\ renderState = "rejected" THEN {thrown} ELSE {}
    [] adapter = "stream" ->
         IF streamState = "errored" THEN {streamError} ELSE {}
    [] adapter = "iterable" ->
         {results[i].error : i \in {j \in 1..Len(results) : results[j].kind = "throw"}}

\* C11: in every adapter a failure of the render operation that is surfaced
\* carries a location: {file: route.component} when it had none (here: for a
\* failure of the error hierarchy, which has the setter), its own otherwise.
C11_LocationSetBeforeSurfacing ==
  \A e \in SurfacedFailures :
    e.type = "AstroError" =>
      /\ e.loc # NoLoc
      /\ e.loc # RouteComponent => e \in RejectionValues

\* C12: when the factory's top-level result is neither a Response nor a render
\* template, each adapter rejects at once with an OnlyResponseCanBeReturned error
\* whose location is {file: route.component}: no init is invoked, the render
\* operation is not invoked, nothing is written, and nothing is returned.
C12_OnlyResponseCanBeReturned ==
  (factoryResult = "other")
  => /\ pc \in {"factory", "rejected"}
     /\ returned = "none"
     /\ pc = "factory" => thrown = NoError
     /\ pc = "rejected" =>
          /\ thrown.type = "AstroError"
          /\ thrown.name = "OnlyResponseCanBeReturned"
          /\ thrown.loc = RouteComponent
     /\ \A p \in PropagatorIds : inits[p] = 0
     /\ headIdx = 0 /\ initLog = <<>> /\ extraHead = InitialExtraHead
     /\ renderState = "notInvoked"
     /\ written = <<>> /\ docInserts = 0
     /\ str = <<>> /\ enqueued = <<>> /\ buffer = <<>>
     /\ streamState = "none" /\ taskState = "none" /\ nextId = 0

\* C12 witness: the Stream Adapter of a page with a propagator has rejected with
\* the configuration error, located at the route's component.
C12_Witness ==
  /\ adapter = "stream" /\ isPage /\ propagators = <<1>>
  /\ factoryResult = "other"
  /\ pc = "rejected"
  /\ thrown = OnlyResponseCanBeReturned
  /\ inits[1] = 0

\* The document that the context and the written chunks determine, whichever
\* adapter delivers it: as text, and as the bytes that encode the text.
Document == TextDue
DocumentBytes == Encode(Document)

\* C13: the three adapters deliver the same document.  One behaviour is one call
\* of one adapter, so the agreement is stated against the one document that the
\* context, isPage and the written chunks determine: when the render operation has
\* completed and no Response was written, the text of the String Adapter is that
\* document, and the enqueued bytes of the Stream Adapter and the next() values of
\* the Async-Iterable Adapter (pulled to done) are its byte encoding; the doctype
\* was inserted or not by the same decision.
C13_AdaptersAgree ==
  (renderState = "fulfilled" /\ ~ResponseWritten)
  => /\ docInserts = (IF DoctypeDue THEN 1 ELSE 0)
     /\ adapter = "string" => str = Document
     /\ adapter = "stream" => Flatten(enqueued) = DocumentBytes
     /\ adapter = "iterable" =>
          /\ Delivered \o Flatten(buffer) = DocumentBytes
          /\ ConsumerDone => Delivered = DocumentBytes

\* C13 witness: the consumer of the iterator has pulled to done the document of an
\* uncompressed page that wrote a byte-like and a string-like chunk: the doctype,
\* the text of the bytes and the two-byte character.
C13_Witness ==
  /\ adapter = "iterable" /\ renderState = "fulfilled"
  /\ isPage /\ ~partial /\ ~compressHTML
  /\ written = <<BytesChunk(Encode(LowerDoctypeText)), StringChunk(<<"U+00E9">>)>>
  /\ ConsumerDone
  /\ Document = DoctypeUnit \o LowerDoctypeText \o <<"U+00E9">>
  /\ Decode(Delivered) = Document

\* C14: when result.partial is true, or isPage is false, no adapter inserts a
\* doctype, whatever chunks are written and however many: all that the destination
\* has emitted, and all that the consumer has received, is the converted chunks.
C14_NoDoctypeForPartial ==
  (partial \/ ~isPage)
  => /\ docInserts = 0
     /\ Emitted = ConvertedAll(written)
     /\ IsPrefix(Output, ConvertedAll(written))

\* C14 witness: the stream of a partial page has closed after two chunks without
\* a doctype marker, and holds their bytes alone.
C14_Witness ==
  /\ adapter = "stream" /\ isPage /\ partial
  /\ written = <<StringChunk(<<"U+00E9">>), StringChunk(<<"U+00E9">>)>>
  /\ streamState = "closed"
  /\ enqueued = <<<<195, 169>>, <<195, 169>>>>

\* An upper-case ASCII letter as its lower-case letter, any other byte as it is.
ByteLower(b) == IF b \in 65..90 THEN b + 32 ELSE b

\* The bytes hold the UTF-8 bytes of a doctype marker, in any letter case.
BytesHoldMarker(bs) ==
  \E i \in 1..(Len(bs) - Len(DoctypePattern) + 1) :
    \A j \in 1..Len(DoctypePattern) : ByteLower(bs[i + j - 1]) = Code(DoctypePattern[j])

\* The chunk contains a doctype marker: in its text, or in its bytes.
HoldsMarker(chunk) ==
  CASE chunk.kind = "string" -> MarkerCount(chunk.text) > 0
    [] chunk.kind = "bytes" -> BytesHoldMarker(chunk.bytes)
    [] chunk.kind = "response" -> FALSE

\* C15: when the first chunk written in a render contains the doctype marker, in
\* any letter case, no adapter inserts a doctype, neither at that write nor at a
\* later one.
C15_NoDoctypeWhenFirstChunkHasIt ==
  (written # <<>> /\ HoldsMarker(written[1])) => docInserts = 0

\* C16: in the Async-Iterable Adapter the bytes written before a failure of the
\* render operation are not lost: when a next() call throws the recorded error,
\* the calls before it have delivered every byte written (the doctype included).
C16_FailureDeliversAllBytes ==
  adapter = "iterable" =>
    \A i \in 1..Len(results) :
      results[i].kind = "throw" => DeliveredBefore(i) = BytesDue

\* The entries of the set whose init has been awaited to its end.
AwaitedInits == IF pc \in {"awaitInit", "rejected"} THEN headIdx - 1 ELSE headIdx

RECURSIVE HeadsDue(_)
\* The heads of the first k entries of the set whose init gives a head+content
\* pair, in the order of the set.
HeadsDue(k) ==
  IF k = 0 THEN <<>>
  ELSE HeadsDue(k - 1)
       \o (IF initReturns[propagators[k]] = "HeadAndContent" THEN <<propagators[k]>> ELSE <<>>)

\* C17: the head-propagation pass invokes the init of each propagator of the set
\* exactly once, those that an init adds during the pass included (and none twice,
\* however often it is added); extraHead is what it was before the pass followed
\* by the heads of the inits that gave a head+content pair, in visit order, and
\* nothing for the other inits.
C17_HeadPass ==
  /\ \A i, j \in 1..Len(propagators) : i # j => propagators[i] # propagators[j]
  /\ \A p \in PropagatorIds :
       inits[p] = (IF \E i \in 1..headIdx : propagators[i] = p THEN 1 ELSE 0)
  /\ \A i \in 1..headIdx : \E j \in 1..Len(propagators) : propagators[j] = initAdds[propagators[i]]
  /\ pc = "returned" => headIdx = Len(propagators)
  /\ extraHead = InitialExtraHead \o HeadsDue(AwaitedInits)
  /\ \A i \in 1..Len(initLog) :
       initLog[i].p = propagators[i]
       /\ initLog[i].head = (initReturns[propagators[i]] = "HeadAndContent")

\* C17 witness: the pass is over a set that held propagator 2, whose init added
\* propagator 1, whose init added 2 again: each init ran once, and extraHead got
\* the head of 2 and then the head of 1.
C17_Witness ==
  /\ pc = "returned"
  /\ propagators = <<2, 1>>
  /\ initAdds[2] = 1 /\ initAdds[1] = 2
  /\ inits[1] = 1 /\ inits[2] = 1
  /\ extraHead = <<0, 2, 1>>

\* C18 as stated, its last consequence: every write of non-empty bytes satisfies a
\* next() call, so when the write resolves the outstanding signal a call of the
\* consumer is awaiting that signal.
C18_EveryWriteWakesOneNext ==
  [][(adapter = "iterable" /\ nextId > 0 /\ nextId' > nextId) => awaiting = nextId]_vars

\* The signal in one state: unresolved while the render operation runs, and
\* resolved exactly from the step on in which the then or the catch handler ran.
C18_State ==
  /\ renderState = "running" => ~nextResolved
  /\ nextResolved <=> taskState \in {"resolved", "caught"}
  /\ awaiting <= nextId

\* A write in one step: non-empty bytes are appended (after the doctype, if this
\* write inserts it), the outstanding signal is resolved and a fresh unresolved
\* one replaces it; with empty bytes (or a Response) the chunk is not appended and
\* the signal is as it was.  No write settles a next() call by itself.
C18_WriteStep ==
  (written' # written) =>
    LET chunk == written'[Len(written')]
        doctype == IF docInserts' > docInserts THEN <<DoctypeBytes>> ELSE <<>>
        bytes == IF chunk.kind = "response" THEN <<>> ELSE chunkToByteArray(chunk)
    IN /\ IF Len(bytes) > 0
          THEN /\ buffer' = buffer \o doctype \o <<bytes>>
               /\ ~nextResolved /\ nextId' = nextId + 1 /\ ~nextResolved'
          ELSE /\ buffer' = buffer \o doctype
               /\ nextId' = nextId /\ nextResolved' = nextResolved
       /\ UNCHANGED <<awaiting, results>>

\* A next() call in one step: it settles only when the signal it awaited at its
\* call is resolved, by one write or by a handler.
C18_WakeStep ==
  (results' # results) =>
    /\ awaiting # 0 /\ IsResolved(awaiting)
    /\ Len(results') = Len(results) + 1
    /\ awaiting' = 0

\* C18 as amended: what the claim says of a write holds; the outstanding signal is
\* unresolved while the render operation runs and resolved from the moment the
\* completion or failure handler has run; a write of non-empty bytes resolves
\* exactly one signal, which satisfies the next() call that awaits it, if there is
\* one.
C18_SignalPerWrite ==
  /\ []((adapter = "iterable" /\ nextId > 0) => C18_State)
  /\ [][adapter = "iterable" => (C18_WriteStep /\ C18_WakeStep)]_vars

\* C18 witness: the tree wrote an empty chunk, which left the first signal alone,
\* and then a non-empty one, which resolved it for the waiting next() call and
\* installed the second; the render operation is still running.
C18_Witness ==
  /\ adapter = "iterable" /\ renderState = "running"
  /\ written = <<StringChunk(<<>>), StringChunk(<<"U+00E9">>)>>
  /\ nextId = 2 /\ ~nextResolved
  /\ results = <<[kind |-> "value", done |-> FALSE, value |-> <<195, 169>>]>>
  /\ buffer = <<>>

\* The producer in one state: while the render operation runs (and the tree has
\* chunks left to write, at most MaxWrites here) every chunk can be written and
\* the operation can complete, whatever next() calls were made or are pending;
\* and nothing written is lost from the buffer before it is delivered.
C19_State ==
  /\ (renderState = "running" /\ Len(written) < MaxWrites)
       => \A chunk \in ChunkValues : ENABLED IterableWrite(chunk)
  /\ renderState = "running" => ENABLED RenderComplete
  /\ renderState \in {"running", "fulfilled"} => Delivered \o Flatten(buffer) = BytesDue

\* The pulls made after the completion: once the then handler has run, the next()
\* call that settles delivers all that is buffered, in write order, and with it
\* the consumer has received every byte written.
C19_Step ==
  (taskState = "resolved" /\ results' # results)
    => /\ buffer' = <<>>
       /\ Delivered' = Delivered \o Flatten(buffer)
       /\ Delivered' = BytesDue

\* C19: in the Async-Iterable Adapter the producer is never blocked by the
\* consumer: a write is possible in every state of a running render operation,
\* whatever the next() calls, so the operation can complete with no next() call at
\* all, and the bytes buffered meanwhile are all delivered, in order, by the pulls
\* made afterwards.
C19_ProducerNeverBlocked ==
  /\ [](adapter = "iterable" => C19_State)
  /\ [][adapter = "iterable" => C19_Step]_vars

\* C19 witness: the render operation of a page has written two chunks and
\* completed, and its then handler has run, before any next() call: the doctype
\* and the two chunks wait in the buffer, and next() can be called.
C19_Witness ==
  /\ adapter = "iterable" /\ isPage /\ ~partial /\ compressHTML
  /\ taskState = "resolved"
  /\ Len(written) = 2
  /\ results = <<>> /\ awaiting = 0
  /\ Len(buffer) = 3
  /\ Flatten(buffer) = BytesDue
  /\ ENABLED NextCall

\* A next() call has returned done = true, or has thrown.
C20_Ended ==
  \E i \in 1..Len(results) :
    results[i].kind = "throw" \/ (results[i].kind = "value" /\ results[i].done)

\* After a result that is done, every result is done and its value is empty.
C20_DoneIsFinal ==
  \A i, j \in 1..Len(results) :
    (i < j /\ results[i].kind = "value" /\ results[i].done)
      => results[j] = [kind |-> "value", done |-> TRUE, value |-> <<>>]

\* C20: the iteration of the Async-Iterable Adapter terminates.  With a render
\* operation that completes or fails at last, an event loop that runs every queued
\* job and a consumer that keeps calling next(): no next() call stays pending for
\* ever, the consumer gets done = true or the thrown error at last, and after a
\* done = true every later next() returns done = true with an empty value.
C20_IterationTerminates ==
  /\ []C20_DoneIsFinal
  /\ (awaiting # 0) ~> (awaiting = 0)
  /\ <>C20_Ended

\* C20 witness: the consumer got the bytes of a chunk, then done = true after the
\* render operation had completed, and done = true again from one more next().
C20_Witness ==
  /\ renderState = "fulfilled"
  /\ Len(results) = 3 /\ awaiting = 0
  /\ results[1] = [kind |-> "value", done |-> FALSE, value |-> <<195, 169>>]
  /\ results[2] = [kind |-> "value", done |-> TRUE, value |-> <<>>]
  /\ results[3] = [kind |-> "value", done |-> TRUE, value |-> <<>>]

====
